---- MODULE Spec2Model ----
(***************************************************************************)
(* Model of the Todo service (src/services/TodoService.ts), the GraphQL    *)
(* list resolver that wraps it, and the part of the Mongoose collection    *)
(* the service talks to.                                                   *)
(*                                                                         *)
(* A document is a record; an optional field that is not set is a key      *)
(* that is missing from the record, and an input object is a record whose  *)
(* domain is the set of fields the caller supplied (a missing key is       *)
(* JavaScript's undefined).  Text is a sequence of characters, so that the *)
(* $regex match of the search filter is computed, not assumed.  Dates are  *)
(* naturals (milliseconds).                                                *)
(***************************************************************************)
EXTENDS Integers, Sequences, FiniteSets, TLC

VARIABLES todos, nextId, now, mode, last, pending

vars == <<todos, nextId, now, mode, last, pending>>

(***************************************************************************)
(* Bounds of the model                                                     *)
(***************************************************************************)
\* number of documents a behaviour of Spec can insert (ids are never reused)
MaxTodos == 2
\* largest number of documents in a store SpecCall starts from
MaxBulk == 5
\* number of calls of toggleTodoStatus that can be between findById and save()
MaxInflight == 2
\* number of times the clock moves in a behaviour of SpecConc
MaxClock == 1

(***************************************************************************)
(* src/models/Todo.ts: the enums and the schema's defaults                 *)
(***************************************************************************)
TodoPriority == {"LOW", "MEDIUM", "HIGH", "URGENT"}

TodoStatus == {"TODO", "IN_PROGRESS", "COMPLETED"}

(***************************************************************************)
(* Records as JavaScript objects                                           *)
(***************************************************************************)
EmptyObj == [k \in {} |-> TRUE]

Has(obj, k) == k \in DOMAIN obj

\* obj[k] = v
Put(obj, k, v) == [x \in (DOMAIN obj) \cup {k} |-> IF x = k THEN v ELSE obj[x]]

\* { ...a, ...b }, also the effect of $set: b on the document a
Assign(a, b) == [x \in (DOMAIN a) \cup (DOMAIN b) |-> IF x \in DOMAIN b THEN b[x] ELSE a[x]]

(***************************************************************************)
(* Identifiers.  0 stands for every string that is no ObjectId; Mongoose   *)
(* refuses to cast it (CastError) before the store is asked.  The other    *)
(* identifiers are well formed; the store assigns them in order and never  *)
(* twice.                                                                   *)
(***************************************************************************)
MalformedId == 0

TodoIds == 1..MaxTodos

IdInputs == {MalformedId} \cup TodoIds

IsObjectId(id) == id # MalformedId

(***************************************************************************)
(* Outcome of one call of the persistence layer: "ok", or the message of   *)
(* the Error it rejects with.                                               *)
(***************************************************************************)
StorageErrors == {"ECONN"}

Outcomes == {"ok"} \cup StorageErrors

CastErrorMessage == "Cast to ObjectId failed"

\* the rethrow that takes every failure for one that has no message
RaiseUnknown(prefix, message) == [kind |-> "error", message |-> <<prefix, "Unknown error">>]

\* throw new Error(`${prefix}${error.message}`): the message, piece by piece
Raise(prefix, message) == [kind |-> "error", message |-> <<prefix, message>>]

RetNull == [kind |-> "null"]

RetDoc(doc) == [kind |-> "doc", doc |-> doc]

RetBool(b) == [kind |-> "bool", value |-> b]

RetCount(n) == [kind |-> "count", value |-> n]

\* await Promise.all([...]) of calls that end as outcomes: "ok" when every call
\* succeeds, else the rejection of a call that failed
PromiseAll(outcomes) ==
    IF \A n \in 1..Len(outcomes) : outcomes[n] = "ok" THEN "ok"
    ELSE outcomes[CHOOSE n \in 1..Len(outcomes) :
                      /\ outcomes[n] # "ok"
                      /\ \A m \in 1..(n - 1) : outcomes[m] = "ok"]

\* one call of the persistence layer an operation made, and how it ended
Call(name, outcome) == [call |-> name, outcome |-> outcome]

\* what the last call was and what it returned; before is the target document as
\* it was stored when the call began (empty when there was none), twice is the
\* (completed, status) pair the target had before the previous call, when that
\* call and this one are both successful toggles of the same document, calls is
\* the persistence calls the operation made, in the order it made them
Called(op, id, input, ret, before, twice, calls) ==
    [op |-> op, id |-> id, input |-> input, ret |-> ret, before |-> before, twice |-> twice,
     calls |-> calls]

Stored(store, id) == IF id \in DOMAIN store THEN <<store[id]>> ELSE <<>>

(***************************************************************************)
(* Calls of toggleTodoStatus that are between their findById and their     *)
(* save(): pending maps each to the id it was called with, the document    *)
(* findById loaded into its local variable, the time findById returned     *)
(* at, and what has been written to                                        *)
(* the stored document since: seen is "none", the kind of the one write    *)
(* ("toggle", "update", "delete", or "late toggle" for the save() of a     *)
(* call that had itself seen a write), or "many"; upd is the completed and *)
(* status an only update has set.                                          *)
(***************************************************************************)
Flight(id, loaded, at) ==
    [id |-> id, loaded |-> loaded, at |-> at, seen |-> "none", upd |-> EmptyObj]

\* the part of an update that writes completed or status
PairPart(data) == [k \in (DOMAIN data) \cap {"completed", "status"} |-> data[k]]

Write(kind, data) == [kind |-> kind, data |-> PairPart(data)]

\* a call in flight after a write to its document
Note(flight, write) ==
    IF write.kind = "update" /\ write.data = EmptyObj THEN flight
    ELSE [flight EXCEPT !.seen = IF flight.seen = "none" THEN write.kind ELSE "many",
                        !.upd = IF flight.seen = "none" THEN write.data ELSE EmptyObj]

\* the calls in flight after a write to the documents whose id is in ids
Noted(flights, ids, write) ==
    [r \in DOMAIN flights |->
        IF flights[r].id \in ids THEN Note(flights[r], write) ELSE flights[r]]

(***************************************************************************)
(* createTodo                                                              *)
(***************************************************************************)
\* new Todo({...}) with the timestamps option: the document save() inserts
NewTodo(input, t) ==
    LET base == [title |-> input.title,
                 priority |-> IF Has(input, "priority") THEN input.priority ELSE "MEDIUM",
                 status |-> "TODO",
                 tags |-> IF Has(input, "tags") THEN input.tags ELSE <<>>,
                 completed |-> FALSE,
                 createdAt |-> t,
                 updatedAt |-> t]
        d1 == IF Has(input, "description") THEN Put(base, "description", input.description) ELSE base
    IN  IF Has(input, "dueDate") THEN Put(d1, "dueDate", input.dueDate) ELSE d1

CreateTodo(input, outcome) ==
    /\ mode # "done"
    /\ nextId \in TodoIds
    /\ IF outcome = "ok"
       THEN /\ todos' = Put(todos, nextId, NewTodo(input, now))
            /\ nextId' = nextId + 1
            /\ last' = Called("create", nextId, input, RetDoc(NewTodo(input, now)), <<>>, <<>>,
                             <<Call("save", "ok")>>)
       ELSE /\ UNCHANGED <<todos, nextId>>
            /\ last' = Called("create", 0, input, Raise("Failed to create todo: ", outcome), <<>>, <<>>,
                             <<Call("save", outcome)>>)
    /\ mode' = IF mode = "call" THEN "done" ELSE mode
    /\ UNCHANGED <<now, pending>>

(***************************************************************************)
(* getTodoById                                                             *)
(***************************************************************************)
GetTodoById(id, outcome) ==
    /\ mode # "done"
    /\ last' = Called("get", id, EmptyObj,
                      IF ~IsObjectId(id) THEN Raise("Failed to fetch todo: ", CastErrorMessage)
                      ELSE IF outcome # "ok" THEN Raise("Failed to fetch todo: ", outcome)
                      ELSE IF id \in DOMAIN todos THEN RetDoc(todos[id])
                      ELSE RetNull,
                      Stored(todos, id), <<>>,
                      <<Call("findById", IF IsObjectId(id) THEN outcome ELSE CastErrorMessage)>>)
    /\ mode' = IF mode = "call" THEN "done" ELSE mode
    /\ UNCHANGED <<todos, nextId, now, pending>>

(***************************************************************************)
(* updateTodo                                                              *)
(***************************************************************************)
\* the update that sets status from completed before it copies input.status
UpdateDataStatusLast(input) ==
    LET u0 == IF Has(input, "completed")
              THEN LET c == Put(EmptyObj, "completed", input.completed)
                   IN  IF input.completed THEN Put(c, "status", "COMPLETED") ELSE c
              ELSE EmptyObj
        u1 == IF Has(input, "title") THEN Put(u0, "title", input.title) ELSE u0
        u2 == IF Has(input, "description") THEN Put(u1, "description", input.description) ELSE u1
        u3 == IF Has(input, "status") THEN Put(u2, "status", input.status) ELSE u2
        u4 == IF Has(input, "priority") THEN Put(u3, "priority", input.priority) ELSE u3
        u5 == IF Has(input, "dueDate") THEN Put(u4, "dueDate", input.dueDate) ELSE u4
    IN  IF Has(input, "tags") THEN Put(u5, "tags", input.tags) ELSE u5

\* the update that also marks the todo completed when the status becomes COMPLETED
UpdateDataBothWays(input) ==
    LET u1 == IF Has(input, "title") THEN Put(EmptyObj, "title", input.title) ELSE EmptyObj
        u2 == IF Has(input, "description") THEN Put(u1, "description", input.description) ELSE u1
        u3 == IF Has(input, "status") THEN Put(u2, "status", input.status) ELSE u2
        u4 == IF Has(input, "priority") THEN Put(u3, "priority", input.priority) ELSE u3
        u5 == IF Has(input, "dueDate") THEN Put(u4, "dueDate", input.dueDate) ELSE u4
        u6 == IF Has(input, "tags") THEN Put(u5, "tags", input.tags) ELSE u5
        u7 == IF Has(input, "completed") THEN Put(u6, "completed", input.completed) ELSE u6
    IN  IF Has(u7, "completed") /\ u7.completed THEN Put(u7, "status", "COMPLETED")
        ELSE IF Has(u7, "status") /\ u7.status = "COMPLETED" THEN Put(u7, "completed", TRUE)
        ELSE u7

\* the object handed to $set
UpdateData(input) ==
    LET u1 == IF Has(input, "title") THEN Put(EmptyObj, "title", input.title) ELSE EmptyObj
        u2 == IF Has(input, "description") THEN Put(u1, "description", input.description) ELSE u1
        u3 == IF Has(input, "status") THEN Put(u2, "status", input.status) ELSE u2
        u4 == IF Has(input, "priority") THEN Put(u3, "priority", input.priority) ELSE u3
        u5 == IF Has(input, "dueDate") THEN Put(u4, "dueDate", input.dueDate) ELSE u4
        u6 == IF Has(input, "tags") THEN Put(u5, "tags", input.tags) ELSE u5
    IN  IF Has(input, "completed")
        THEN LET u7 == Put(u6, "completed", input.completed)
             IN  IF input.completed THEN Put(u7, "status", "COMPLETED") ELSE u7
        ELSE u6

\* the timestamps option adds updatedAt to every update
UpdatedDoc(doc, data, t) == Put(Assign(doc, data), "updatedAt", t)

\* findByIdAndUpdate with upsert: a missing document is inserted
FindByIdAndUpsert(store, id, data, t) ==
    IF id \in DOMAIN store
    THEN [store EXCEPT ![id] = UpdatedDoc(store[id], data, t)]
    ELSE Put(store, id, Put(Put(data, "createdAt", t), "updatedAt", t))

\* Todo.findByIdAndUpdate(id, {$set: data}, {new: true, runValidators: true}):
\* the collection afterwards; no document is made when none has the id
FindByIdAndUpdate(store, id, data, t) ==
    IF id \in DOMAIN store
    THEN [store EXCEPT ![id] = UpdatedDoc(store[id], data, t)]
    ELSE store

\* stamp is the time the call was made at: Mongoose puts updatedAt = new Date()
\* into the update in the application, and the store applies the update when
\* it arrives
UpdateTodo(id, input, outcome, stamp) ==
    /\ mode # "done"
    /\ IF ~IsObjectId(id)
       THEN /\ UNCHANGED todos
            /\ last' = Called("update", id, input, Raise("Failed to update todo: ", CastErrorMessage),
                              <<>>, <<>>, <<Call("findByIdAndUpdate", CastErrorMessage)>>)
       ELSE IF outcome # "ok"
       THEN /\ UNCHANGED todos
            /\ last' = Called("update", id, input, Raise("Failed to update todo: ", outcome),
                              Stored(todos, id), <<>>, <<Call("findByIdAndUpdate", outcome)>>)
       ELSE LET after == FindByIdAndUpdate(todos, id, UpdateData(input), stamp)
            IN  /\ todos' = after
                /\ last' = Called("update", id, input,
                                  IF id \in DOMAIN after THEN RetDoc(after[id]) ELSE RetNull,
                                  Stored(todos, id), <<>>, <<Call("findByIdAndUpdate", "ok")>>)
    /\ pending' = IF IsObjectId(id) /\ outcome = "ok" /\ id \in DOMAIN todos
                  THEN Noted(pending, {id}, Write("update", UpdateData(input)))
                  ELSE pending
    /\ mode' = IF mode = "call" THEN "done" ELSE mode
    /\ UNCHANGED <<nextId, now>>

(***************************************************************************)
(* deleteTodo, deleteCompletedTodos                                        *)
(***************************************************************************)
\* the collection without the documents whose id is in ids
Without(store, ids) == [i \in (DOMAIN store) \ ids |-> store[i]]

DeleteTodo(id, outcome) ==
    /\ mode # "done"
    /\ IF ~IsObjectId(id)
       THEN /\ UNCHANGED todos
            /\ last' = Called("delete", id, EmptyObj, Raise("Failed to delete todo: ", CastErrorMessage),
                              <<>>, <<>>, <<Call("findByIdAndDelete", CastErrorMessage)>>)
       ELSE IF outcome # "ok"
       THEN /\ UNCHANGED todos
            /\ last' = Called("delete", id, EmptyObj, Raise("Failed to delete todo: ", outcome),
                              Stored(todos, id), <<>>, <<Call("findByIdAndDelete", outcome)>>)
       ELSE /\ todos' = Without(todos, {id})
            /\ last' = Called("delete", id, EmptyObj, RetBool(id \in DOMAIN todos),
                              Stored(todos, id), <<>>, <<Call("findByIdAndDelete", "ok")>>)
    /\ pending' = IF IsObjectId(id) /\ outcome = "ok" /\ id \in DOMAIN todos
                  THEN Noted(pending, {id}, Write("delete", EmptyObj))
                  ELSE pending
    /\ mode' = IF mode = "call" THEN "done" ELSE mode
    /\ UNCHANGED <<nextId, now>>

\* deleteMany({status: COMPLETED}): the filter on the other field
CompletedStatusIds(store) == {i \in DOMAIN store : store[i].status = "COMPLETED"}

\* the ids deleteMany({completed: true}) matches
CompletedIds(store) == {i \in DOMAIN store : store[i].completed = TRUE}

DeleteCompletedTodos(outcome) ==
    /\ mode # "done"
    /\ IF outcome # "ok"
       THEN /\ UNCHANGED todos
            /\ last' = Called("deleteCompleted", 0, EmptyObj,
                              Raise("Failed to delete completed todos: ", outcome), <<>>, <<>>,
                              <<Call("deleteMany", outcome)>>)
       ELSE /\ todos' = Without(todos, CompletedIds(todos))
            /\ last' = Called("deleteCompleted", 0, EmptyObj,
                              RetCount(Cardinality(CompletedIds(todos))), <<>>, <<>>,
                              <<Call("deleteMany", "ok")>>)
    /\ pending' = IF outcome = "ok"
                  THEN Noted(pending, CompletedIds(todos), Write("delete", EmptyObj))
                  ELSE pending
    /\ mode' = IF mode = "call" THEN "done" ELSE mode
    /\ UNCHANGED <<nextId, now>>

(***************************************************************************)
(* toggleTodoStatus                                                        *)
(***************************************************************************)
\* a toggle that keeps the status it found when the todo is no longer completed
ToggledKeepingStatus(doc) ==
    LET t1 == [doc EXCEPT !.completed = ~doc.completed]
    IN  [t1 EXCEPT !.status = IF t1.completed THEN "COMPLETED" ELSE doc.status]

\* a toggle that sets the flag instead of negating it
ToggledOn(doc) == [doc EXCEPT !.completed = TRUE, !.status = "COMPLETED"]

\* todo.completed = !todo.completed; todo.status = todo.completed ? COMPLETED : TODO
Toggled(doc) ==
    LET t1 == [doc EXCEPT !.completed = ~doc.completed]
    IN  [t1 EXCEPT !.status = IF t1.completed THEN "COMPLETED" ELSE "TODO"]

\* the paths Mongoose marks modified: those assigned a value other than the loaded one
ModifiedPaths(loaded, changed) ==
    {k \in DOMAIN changed : ~Has(loaded, k) \/ loaded[k] # changed[k]}

\* todo.save() of a loaded document: $set of the modified paths, and updatedAt,
\* on the document as it is stored now
SavedDoc(stored, loaded, changed, t) ==
    Put(Assign(stored, [k \in ModifiedPaths(loaded, changed) |-> changed[k]]), "updatedAt", t)

\* the pair the last call left behind for the next toggle of the same document
ToggledBefore(id) ==
    IF last.op = "toggle" /\ last.id = id /\ last.ret.kind = "doc"
    THEN <<[completed |-> last.before[1].completed, status |-> last.before[1].status]>>
    ELSE <<>>

\* findById, the two assignments and save() with no other call in between
ToggleTodoStatus(id, found, saved) ==
    /\ mode # "done"
    /\ IF ~IsObjectId(id)
       THEN /\ UNCHANGED todos
            /\ last' = Called("toggle", id, EmptyObj,
                              Raise("Failed to toggle todo status: ", CastErrorMessage), <<>>, <<>>,
                              <<Call("findById", CastErrorMessage)>>)
       ELSE IF found # "ok"
       THEN /\ UNCHANGED todos
            /\ last' = Called("toggle", id, EmptyObj, Raise("Failed to toggle todo status: ", found),
                              Stored(todos, id), <<>>, <<Call("findById", found)>>)
       ELSE IF id \notin DOMAIN todos
       THEN /\ UNCHANGED todos
            /\ last' = Called("toggle", id, EmptyObj, RetNull, <<>>, <<>>, <<Call("findById", "ok")>>)
       ELSE IF saved # "ok"
       THEN /\ UNCHANGED todos
            /\ last' = Called("toggle", id, EmptyObj, Raise("Failed to toggle todo status: ", saved),
                              Stored(todos, id), <<>>,
                              <<Call("findById", "ok"), Call("save", saved)>>)
       ELSE /\ todos' = [todos EXCEPT ![id] = SavedDoc(todos[id], todos[id], Toggled(todos[id]), now)]
            /\ last' = Called("toggle", id, EmptyObj,
                              RetDoc(SavedDoc(todos[id], todos[id], Toggled(todos[id]), now)),
                              Stored(todos, id), ToggledBefore(id),
                              <<Call("findById", "ok"), Call("save", "ok")>>)
    /\ pending' = IF IsObjectId(id) /\ found = "ok" /\ saved = "ok" /\ id \in DOMAIN todos
                  THEN Noted(pending, {id}, Write("toggle", EmptyObj))
                  ELSE pending
    /\ mode' = IF mode = "call" THEN "done" ELSE mode
    /\ UNCHANGED <<nextId, now>>

\* the message of the DocumentNotFoundError save() rejects with when the
\* document it updates is gone
DocumentNotFoundMessage == "No document found for query"

\* toggleTodoStatus up to the end of await Todo.findById(id): call r holds the
\* document it loaded; a call that found none, or failed, has returned
ToggleFind(r, id, found) ==
    /\ mode # "done"
    /\ r \notin DOMAIN pending
    /\ \A q \in 1..(r - 1) : q \in DOMAIN pending
    /\ IF ~IsObjectId(id)
       THEN /\ UNCHANGED pending
            /\ last' = Called("toggle", id, EmptyObj,
                              Raise("Failed to toggle todo status: ", CastErrorMessage), <<>>, <<>>,
                              <<Call("findById", CastErrorMessage)>>)
       ELSE IF found # "ok"
       THEN /\ UNCHANGED pending
            /\ last' = Called("toggle", id, EmptyObj, Raise("Failed to toggle todo status: ", found),
                              Stored(todos, id), <<>>, <<Call("findById", found)>>)
       ELSE IF id \notin DOMAIN todos
       THEN /\ UNCHANGED pending
            /\ last' = Called("toggle", id, EmptyObj, RetNull, <<>>, <<>>, <<Call("findById", "ok")>>)
       ELSE /\ pending' = Put(pending, r, Flight(id, todos[id], now))
            /\ UNCHANGED last
    /\ UNCHANGED <<todos, nextId, now, mode>>

\* the rest of call r: the two assignments to the loaded document and await
\* todo.save(), which returns the loaded document as it is in memory; stamp is
\* the time save() was called at, after findById returned: Mongoose puts
\* updatedAt = new Date() into the update in the application, and the store
\* applies the update when it arrives
ToggleSave(r, saved, stamp) ==
    /\ mode # "done"
    /\ r \in DOMAIN pending
    /\ stamp \in pending[r].at..now
    /\ LET f == pending[r]
           rest == [q \in (DOMAIN pending) \ {r} |-> pending[q]]
       IN  IF saved # "ok"
           THEN /\ UNCHANGED todos
                /\ pending' = rest
                /\ last' = Called("toggle", f.id, EmptyObj,
                                  Raise("Failed to toggle todo status: ", saved), <<f.loaded>>, <<>>,
                                  <<Call("findById", "ok"), Call("save", saved)>>)
           ELSE IF f.id \notin DOMAIN todos
           THEN /\ UNCHANGED todos
                /\ pending' = rest
                /\ last' = Called("toggle", f.id, EmptyObj,
                                  Raise("Failed to toggle todo status: ", DocumentNotFoundMessage),
                                  <<f.loaded>>, <<>>,
                                  <<Call("findById", "ok"), Call("save", DocumentNotFoundMessage)>>)
           ELSE /\ todos' = [todos EXCEPT
                                ![f.id] = SavedDoc(todos[f.id], f.loaded, Toggled(f.loaded), stamp)]
                /\ pending' = Noted(rest, {f.id},
                                    Write(IF f.seen = "none" THEN "toggle" ELSE "late toggle", EmptyObj))
                /\ last' = Called("toggle", f.id, EmptyObj,
                                  RetDoc(Put(Toggled(f.loaded), "updatedAt", stamp)), <<f.loaded>>, <<>>,
                                  <<Call("findById", "ok"), Call("save", "ok")>>)
    /\ UNCHANGED <<nextId, now, mode>>

\* time passes: the clock the timestamps option reads
Tick ==
    /\ mode # "done"
    /\ now < MaxClock
    /\ now' = now + 1
    /\ UNCHANGED <<todos, nextId, mode, last, pending>>

(***************************************************************************)
(* getTodoStats                                                            *)
(***************************************************************************)
\* Todo.countDocuments(query) for a query on the completed flag
CountCompleted(store, flag) == Cardinality({i \in DOMAIN store : store[i].completed = flag})

\* a grouping that reports every value of the enum, zero for those no document holds
GroupCountZeroFilled(store, field) ==
    [v \in (IF field = "priority" THEN TodoPriority ELSE TodoStatus) |->
        Cardinality({i \in DOMAIN store : store[i][field] = v})]

\* Todo.aggregate([{$group: {_id: "$field", count: {$sum: 1}}}]) reduced to an object:
\* one key for each value some document holds
GroupCount(store, field) ==
    [v \in {store[i][field] : i \in DOMAIN store} |->
        Cardinality({i \in DOMAIN store : store[i][field] = v})]

TodoStats(store) ==
    [kind |-> "stats",
     total |-> Cardinality(DOMAIN store),
     completed |-> CountCompleted(store, TRUE),
     pending |-> CountCompleted(store, FALSE),
     byPriority |-> GroupCount(store, "priority"),
     byStatus |-> GroupCount(store, "status")]

\* the five calls of getTodoStats, in the order of the Promise.all
StatsCalls ==
    <<"countDocuments", "countDocuments completed", "countDocuments pending",
      "aggregate priority", "aggregate status">>

GetTodoStats(outcomes) ==
    /\ mode # "done"
    /\ last' = Called("stats", 0, EmptyObj,
                      IF PromiseAll(outcomes) # "ok"
                      THEN Raise("Failed to fetch todo statistics: ", PromiseAll(outcomes))
                      ELSE TodoStats(todos),
                      <<>>, <<>>,
                      [n \in 1..Len(StatsCalls) |-> Call(StatsCalls[n], outcomes[n])])
    /\ mode' = IF mode = "call" THEN "done" ELSE mode
    /\ UNCHANGED <<todos, nextId, now, pending>>

(***************************************************************************)
(* getTodos and the resolver Query.todos                                   *)
(***************************************************************************)
\* JavaScript's truthiness of a string
Truthy(text) == Len(text) > 0

\* the query in which dueDateAfter replaces the bound dueDateBefore has set
QueryLosingBound(filters) ==
    LET q1 == IF Has(filters, "status") THEN Put(EmptyObj, "status", filters.status) ELSE EmptyObj
        q2 == IF Has(filters, "completed") THEN Put(q1, "completed", filters.completed) ELSE q1
        q3 == IF Has(filters, "priority") THEN Put(q2, "priority", filters.priority) ELSE q2
        q4 == IF Has(filters, "tags") /\ Len(filters.tags) > 0
              THEN Put(q3, "tags", [in |-> filters.tags]) ELSE q3
        q5 == IF Has(filters, "search") /\ Truthy(filters.search)
              THEN Put(q4, "or", filters.search) ELSE q4
        q6 == IF Has(filters, "dueDateBefore")
              THEN Put(q5, "dueDate", [lte |-> filters.dueDateBefore]) ELSE q5
    IN  IF Has(filters, "dueDateAfter")
        THEN Put(q6, "dueDate", [gte |-> filters.dueDateAfter])
        ELSE q6

\* the query object built from a filter object: "in" is $in, "or" the pattern of
\* the $or of the two $regex matches, "lte" and "gte" are $lte and $gte.  A date
\* is a Date or a nonempty string and so always truthy.
QueryOf(filters) ==
    LET q1 == IF Has(filters, "status") THEN Put(EmptyObj, "status", filters.status) ELSE EmptyObj
        q2 == IF Has(filters, "completed") THEN Put(q1, "completed", filters.completed) ELSE q1
        q3 == IF Has(filters, "priority") THEN Put(q2, "priority", filters.priority) ELSE q2
        q4 == IF Has(filters, "tags") /\ Len(filters.tags) > 0
              THEN Put(q3, "tags", [in |-> filters.tags]) ELSE q3
        q5 == IF Has(filters, "search") /\ Truthy(filters.search)
              THEN Put(q4, "or", filters.search) ELSE q4
        q6 == IF Has(filters, "dueDateBefore")
              THEN Put(q5, "dueDate",
                       Put(IF Has(q5, "dueDate") THEN q5.dueDate ELSE EmptyObj, "lte", filters.dueDateBefore))
              ELSE q5
    IN  IF Has(filters, "dueDateAfter")
        THEN Put(q6, "dueDate",
                 Put(IF Has(q6, "dueDate") THEN q6.dueDate ELSE EmptyObj, "gte", filters.dueDateAfter))
        ELSE q6

\* const query = {}; if (filters) {...}: filters is <<>> when the argument is undefined
BuildQuery(filters) == IF filters = <<>> THEN EmptyObj ELSE QueryOf(filters[1])

\* $options: "i"
Lower(c) == CASE c = "A" -> "a" [] c = "B" -> "b" [] OTHER -> c

\* one character of a pattern against one of a text; "." matches any character
CharMatches(p, c) == p = "." \/ Lower(p) = Lower(c)

\* {$regex: pattern, $options: "i"}: the pattern matches somewhere in the text
RegexFound(pattern, text) ==
    \E start \in 0..(Len(text) - Len(pattern)) :
        \A j \in 1..Len(pattern) : CharMatches(pattern[j], text[start + j])

Elements(seq) == {seq[n] : n \in 1..Len(seq)}

\* whether a document satisfies a query: every key of the query is a condition
\* and a document satisfies the query when it satisfies them all
Matches(query, doc) ==
    /\ Has(query, "status") => doc.status = query.status
    /\ Has(query, "completed") => doc.completed = query.completed
    /\ Has(query, "priority") => doc.priority = query.priority
    /\ Has(query, "tags") => Elements(doc.tags) \cap Elements(query.tags.in) # {}
    /\ Has(query, "or") =>
           \/ RegexFound(query.or, doc.title)
           \/ Has(doc, "description") /\ RegexFound(query.or, doc.description)
    /\ Has(query, "dueDate") =>
           /\ Has(doc, "dueDate")
           /\ Has(query.dueDate, "lte") => doc.dueDate <= query.dueDate.lte
           /\ Has(query.dueDate, "gte") => doc.dueDate >= query.dueDate.gte

MatchingIds(store, query) == {i \in DOMAIN store : Matches(query, store[i])}

\* pagination is <<>> when the argument is undefined; x || d is d when x is
\* undefined or 0
OrDefault(pagination, k, d) ==
    IF pagination # <<>> /\ Has(pagination[1], k) /\ pagination[1][k] # 0 THEN pagination[1][k] ELSE d

\* getTodos: const page = pagination?.page || 1
GetTodosPage(pagination) == OrDefault(pagination, "page", 1)

\* getTodos: const limit = pagination?.limit || 10
GetTodosLimit(pagination) == OrDefault(pagination, "limit", 10)

\* getTodos: const skip = (page - 1) * limit
GetTodosSkip(pagination) == (GetTodosPage(pagination) - 1) * GetTodosLimit(pagination)

\* getTodos: sortBy and sortOrder
GetTodosSort(pagination) ==
    [by |-> IF pagination # <<>> /\ Has(pagination[1], "sortBy") /\ pagination[1].sortBy # ""
            THEN pagination[1].sortBy ELSE "createdAt",
     order |-> IF pagination # <<>> /\ Has(pagination[1], "sortOrder") /\ pagination[1].sortOrder = "asc"
               THEN 1 ELSE -1]

\* the order of the priority names as strings
PriorityRank == [p \in TodoPriority |->
                   CASE p = "HIGH" -> 1 [] p = "LOW" -> 2 [] p = "MEDIUM" -> 3 [] OTHER -> 4]

SortKey(doc, by) == IF by = "priority" THEN PriorityRank[doc.priority] ELSE doc.createdAt

\* .sort({[by]: order}): the ids in the order of their keys, equal keys in the
\* order of insertion
Sorted(store, ids, sort) ==
    LET key(i) == sort.order * SortKey(store[i], sort.by)
        before(i, j) == key(i) < key(j) \/ (key(i) = key(j) /\ i < j)
    IN  [n \in 1..Cardinality(ids) |->
            CHOOSE i \in ids : Cardinality({j \in ids : before(j, i)}) = n - 1]

\* .skip(skip).limit(limit) of a cursor; the driver sends a negative limit as
\* its absolute value
Page(seq, skip, limit) ==
    LET n == IF limit < 0 THEN -limit ELSE limit
        to == IF skip + n < Len(seq) THEN skip + n ELSE Len(seq)
    IN  SubSeq(seq, skip + 1, to)

SkipErrorMessage == "skip must be >= 0"

\* the locals of getTodos, of which query, sort, skip and limit go to
\* Todo.find(query).sort(...).skip(skip).limit(limit)
FindArgs(filters, pagination) ==
    [query |-> BuildQuery(filters),
     page |-> GetTodosPage(pagination),
     limit |-> GetTodosLimit(pagination),
     skip |-> GetTodosSkip(pagination),
     sort |-> GetTodosSort(pagination)]

\* getTodos: what it returns or raises; the store rejects a negative skip
\* how Todo.find(query).sort().skip(skip).limit(limit) ends: the store rejects
\* a negative skip
FindOutcome(filters, pagination, found) ==
    IF found # "ok" THEN found
    ELSE IF FindArgs(filters, pagination).skip < 0 THEN SkipErrorMessage
    ELSE "ok"

GetTodos(store, filters, pagination, found, counted) ==
    LET find == FindArgs(filters, pagination)
        ids == MatchingIds(store, find.query)
        outcome == PromiseAll(<<FindOutcome(filters, pagination, found), counted>>)
    IN  IF outcome # "ok" THEN Raise("Failed to fetch todos: ", outcome)
        ELSE [kind |-> "todos",
              todos |-> Page(Sorted(store, ids, find.sort), find.skip, find.limit),
              total |-> Cardinality(ids)]

\* Query.todos: const page = args.pagination?.page || 1
TodosPage(pagination) == OrDefault(pagination, "page", 1)

\* Query.todos: const limit = args.pagination?.limit || 10
TodosLimit(pagination) == OrDefault(pagination, "limit", 10)

\* Math.floor instead of Math.ceil
FloorDiv(total, limit) ==
    IF limit > 0 THEN total \div limit ELSE -((total + (-limit) - 1) \div (-limit))

\* Math.ceil(total / limit) for total >= 0 and limit # 0
CeilDiv(total, limit) ==
    IF limit > 0 THEN (total + limit - 1) \div limit ELSE -(total \div (-limit))

\* Query.todos; the page is a sequence of ids, each standing for the document
\* formatTodoResponse renders
Todos(filters, pagination, found, counted) ==
    /\ mode # "done"
    /\ LET got == GetTodos(todos, filters, pagination, found, counted)
           find == FindArgs(filters, pagination)
       IN  last' = Called("todos", 0, [filters |-> filters, pagination |-> pagination],
                          IF got.kind = "error"
                          THEN [kind |-> "error",
                                message |-> <<"Failed to fetch todos: ">> \o got.message,
                                service |-> got, find |-> find]
                          ELSE [kind |-> "list",
                                todos |-> got.todos,
                                total |-> got.total,
                                page |-> TodosPage(pagination),
                                limit |-> TodosLimit(pagination),
                                totalPages |-> CeilDiv(got.total, TodosLimit(pagination)),
                                service |-> got, find |-> find],
                          <<>>, <<>>,
                          <<Call("find", FindOutcome(filters, pagination, found)),
                            Call("countDocuments", counted)>>)
    /\ mode' = IF mode = "call" THEN "done" ELSE mode
    /\ UNCHANGED <<todos, nextId, now, pending>>

(***************************************************************************)
(* The service called by one client that awaits each call, from the empty  *)
(* collection                                                              *)
(***************************************************************************)
\* createTodo inputs: the least one, and one that sets every optional field
CreateInputs ==
    {[title |-> <<"a">>],
     [title |-> <<"b">>, description |-> <<"A", "b">>, priority |-> "HIGH",
      dueDate |-> 2, tags |-> <<"x">>]}

\* updateTodo inputs of Spec: one field, status or completed
StatusInputs == {[status |-> s] : s \in TodoStatus}

CompletedInputs == {[completed |-> b] : b \in BOOLEAN}

UpdateInputs == StatusInputs \cup CompletedInputs

\* the store answers every call of Spec
Working == {"ok"}

NoCall == Called("none", 0, EmptyObj, RetNull, <<>>, <<>>, <<>>)

Init ==
    /\ todos = EmptyObj
    /\ nextId = 1
    /\ now = 0
    /\ mode = "run"
    /\ last = NoCall
    /\ pending = EmptyObj

Next ==
    \/ \E input \in CreateInputs, outcome \in Working : CreateTodo(input, outcome)
    \/ \E id \in IdInputs, outcome \in Working : GetTodoById(id, outcome)
    \/ \E id \in IdInputs, input \in UpdateInputs, outcome \in Working : UpdateTodo(id, input, outcome, now)
    \/ \E id \in IdInputs, outcome \in Working : DeleteTodo(id, outcome)
    \/ \E outcome \in Working : DeleteCompletedTodos(outcome)
    \/ \E id \in IdInputs, found \in Working, saved \in Working : ToggleTodoStatus(id, found, saved)
    \/ \E outcomes \in [1..Len(StatsCalls) -> Working] : GetTodoStats(outcomes)

Spec == Init /\ [][Next]_vars

(***************************************************************************)
(* One call, of any operation and with any input, on a store the service   *)
(* can have built                                                          *)
(***************************************************************************)
\* the objects that carry field k with one of the values, or do not carry it
Optional(k, values) == {EmptyObj} \cup {Put(EmptyObj, k, v) : v \in values}

\* the objects put together from one object of each of two sets
Both(A, B) == {Assign(a, b) : a \in A, b \in B}

\* updateTodo inputs: every subset of the seven fields
AnyUpdateInputs ==
    Both(Both(Both(Optional("title", {<<"a", "b">>}), Optional("description", {<<"b">>})),
              Both(Optional("status", TodoStatus), Optional("priority", {"LOW"}))),
         Both(Both(Optional("dueDate", {3}), Optional("tags", {<<"y", "x">>})),
              Optional("completed", BOOLEAN)))

\* filters: every subset of the seven fields, tags and search also empty
FilterInputs ==
    Both(Both(Both(Optional("status", {"TODO", "COMPLETED"}), Optional("completed", BOOLEAN)),
              Both(Optional("priority", {"HIGH"}), Optional("tags", {<<>>, <<"z">>, <<"z", "x">>}))),
         Both(Both(Optional("search", {<<>>, <<"B">>, <<"a", ".">>}), Optional("dueDateBefore", {1, 2, 3})),
              Optional("dueDateAfter", {1, 2, 3})))

\* pagination: page and limit absent, zero, negative and positive
PaginationInputs ==
    Both(Both(Optional("page", {-1, 0, 1, 2, 3}), Optional("limit", {-2, 0, 1, 2, 5, 10})),
         Both(Optional("sortBy", {"", "priority"}), Optional("sortOrder", {"asc", "desc"})))

\* the arguments of Query.todos: any filter with the default pagination, and any
\* pagination with no filter, the empty filter or one filter
TodosInputs ==
    ({<<>>} \cup {<<f>> : f \in FilterInputs}) \X {<<>>}
    \cup {<<>>, <<EmptyObj>>, <<[completed |-> FALSE]>>} \X ({<<>>} \cup {<<p>> : p \in PaginationInputs})

\* a document created at time 0 and then updated in its status and completed flag
SampleDocs ==
    {Assign(NewTodo(c, 0), [status |-> s, completed |-> b]) :
        c \in CreateInputs, s \in TodoStatus, b \in BOOLEAN}

\* the i-th document of a larger store
BulkDoc(i) ==
    Assign(NewTodo(IF i % 2 = 1
                   THEN [title |-> <<"a">>]
                   ELSE [title |-> <<"b">>, description |-> <<"A", "b">>, priority |-> "HIGH",
                         dueDate |-> 2, tags |-> <<"x">>], 0),
           [status |-> IF i % 3 = 0 THEN "COMPLETED" ELSE IF i % 3 = 1 THEN "TODO" ELSE "IN_PROGRESS",
            completed |-> (i % 4 = 0)])

\* the stores a call starts from: empty, one document, two documents, and the
\* larger ones
SampleStores ==
    {EmptyObj}
    \cup {Put(EmptyObj, 1, d) : d \in SampleDocs}
    \cup {Put(Put(EmptyObj, 1, d), 2, BulkDoc(2)) : d \in SampleDocs}
    \cup {[i \in 1..n |-> BulkDoc(i)] : n \in 3..MaxBulk}

InitCall ==
    /\ todos \in SampleStores
    /\ nextId = Cardinality(DOMAIN todos) + 1
    /\ now = 1
    /\ mode = "call"
    /\ last = NoCall
    /\ pending = EmptyObj

\* one call: no call is begun once it has returned
NextCall ==
    \/ mode = "call" /\ \E input \in CreateInputs, outcome \in Outcomes : CreateTodo(input, outcome)
    \/ mode = "call" /\ \E id \in IdInputs, outcome \in Outcomes : GetTodoById(id, outcome)
    \/ mode = "call" /\ \E id \in IdInputs, input \in AnyUpdateInputs, outcome \in Outcomes :
                            UpdateTodo(id, input, outcome, now)
    \/ mode = "call" /\ \E id \in IdInputs, outcome \in Outcomes : DeleteTodo(id, outcome)
    \/ mode = "call" /\ \E outcome \in Outcomes : DeleteCompletedTodos(outcome)
    \/ mode = "call" /\ \E id \in IdInputs, found \in Outcomes, saved \in Outcomes :
                            ToggleTodoStatus(id, found, saved)
    \/ mode = "call" /\ \E outcomes \in [1..Len(StatsCalls) -> Outcomes] : GetTodoStats(outcomes)
    \/ mode = "call" /\ \E args \in TodosInputs, found \in Outcomes, counted \in Outcomes :
                            Todos(args[1], args[2], found, counted)

SpecCall == InitCall /\ [][NextCall]_vars

(***************************************************************************)
(* One record, from its creation to its deletion, under calls that         *)
(* overlap: a toggle is two steps, and any call can run between them; the  *)
(* clock moves.                                                            *)
(***************************************************************************)
\* the id of the record: the last one the store gives out
ConcIds == {MaxTodos}

ConcCreateInputs == {[title |-> <<"a">>]}

\* updateTodo inputs of SpecConc: completed, status, and both
ConcUpdateInputs ==
    {[completed |-> TRUE], [status |-> "IN_PROGRESS"],
     [completed |-> FALSE, status |-> "IN_PROGRESS"]}

\* the times a call that names the record can have been made at: the caller
\* learnt the id from createTodo
CallTimes(id) == IF id \in DOMAIN todos THEN todos[id].createdAt..now ELSE {now}

\* the collection is empty, the ids below the record's have been used
InitConc ==
    /\ todos = EmptyObj
    /\ nextId = MaxTodos
    /\ now = 0
    /\ mode = "run"
    /\ last = NoCall
    /\ pending = EmptyObj

NextConc ==
    \/ \E input \in ConcCreateInputs, outcome \in Working : CreateTodo(input, outcome)
    \/ \E id \in ConcIds, input \in ConcUpdateInputs, outcome \in Working :
           \E stamp \in CallTimes(id) : UpdateTodo(id, input, outcome, stamp)
    \/ \E id \in ConcIds, outcome \in Working : DeleteTodo(id, outcome)
    \/ \E r \in 1..MaxInflight, id \in ConcIds, found \in Working : ToggleFind(r, id, found)
    \/ \E r \in 1..MaxInflight, saved \in Working, stamp \in 0..MaxClock : ToggleSave(r, saved, stamp)
    \/ Tick

SpecConc == InitConc /\ [][NextConc]_vars

(***************************************************************************)
(* Properties of the service under Spec                                    *)
(***************************************************************************)
StatusPair(doc) == [completed |-> doc.completed, status |-> doc.status]

ToggledTwice == last.op = "toggle" /\ last.ret.kind = "doc" /\ last.twice # <<>>

\* C2 (as stated): two toggles in a row of one record, nothing in between, bring
\* back the (completed, status) pair it started with, except that a record that
\* started at IN_PROGRESS, not completed, ends at TODO, not completed.
ToggleTwiceRestoresPair ==
    ToggledTwice =>
        IF last.twice[1] = [completed |-> FALSE, status |-> "IN_PROGRESS"]
        THEN StatusPair(todos[last.id]) = [completed |-> FALSE, status |-> "TODO"]
        ELSE StatusPair(todos[last.id]) = last.twice[1]

\* C2 (amended): two toggles in a row bring back the completed flag, and leave
\* status COMPLETED when the flag is true and TODO when it is false; so the pair
\* is brought back when the record started at (false, TODO) or (true, COMPLETED)
\* and at no other pair.
ToggleTwiceRestoresCompleted ==
    ToggledTwice =>
        /\ todos[last.id].completed = last.twice[1].completed
        /\ todos[last.id].status = (IF last.twice[1].completed THEN "COMPLETED" ELSE "TODO")
        /\ (StatusPair(todos[last.id]) = last.twice[1]) <=>
               (last.twice[1] \in {[completed |-> FALSE, status |-> "TODO"],
                                   [completed |-> TRUE, status |-> "COMPLETED"]})

\* a second toggle of a record that started completed with status IN_PROGRESS
ToggleTwiceWitness ==
    /\ ToggledTwice
    /\ last.twice[1] = [completed |-> TRUE, status |-> "IN_PROGRESS"]

\* C3: one toggle of an existing record negates completed, sets status to
\* COMPLETED when completed is now true and to TODO when it is false whatever the
\* status was, so that completed holds exactly when status is COMPLETED, and
\* leaves every other field but updatedAt as it was.
ToggleFlipsAndKeepsOtherFields ==
    (last.op = "toggle" /\ last.ret.kind = "doc") =>
        LET old == last.before[1]
            new == todos[last.id]
        IN  /\ last.ret.doc = new
            /\ new.completed = ~old.completed
            /\ new.status = (IF new.completed THEN "COMPLETED" ELSE "TODO")
            /\ new.completed <=> (new.status = "COMPLETED")
            /\ DOMAIN new = DOMAIN old
            /\ \A k \in (DOMAIN old) \ {"completed", "status", "updatedAt"} : new[k] = old[k]

\* a toggle of a completed record whose status was IN_PROGRESS and which carries
\* every optional field
ToggleWitness ==
    /\ last.op = "toggle"
    /\ last.ret.kind = "doc"
    /\ last.before[1].status = "IN_PROGRESS"
    /\ last.before[1].completed = TRUE
    /\ Has(last.before[1], "dueDate")
    /\ todos[last.id].status = "TODO"

\* C5: deleteCompletedTodos removes the records whose completed flag is true and
\* no other (a record with status COMPLETED that is not completed stays), leaves
\* the records that remain as they were and returns the number removed; with no
\* completed record it returns 0, raises nothing and changes nothing.
DeleteCompletedRemovesCompletedOnly ==
    [][(last'.op = "deleteCompleted") =>
          /\ last'.ret.kind = "count"
          /\ DOMAIN todos' = {i \in DOMAIN todos : ~todos[i].completed}
          /\ \A i \in DOMAIN todos' : todos'[i] = todos[i]
          /\ last'.ret.value = Cardinality(DOMAIN todos) - Cardinality(DOMAIN todos')
          /\ last'.ret.value = Cardinality({i \in DOMAIN todos : todos[i].completed})
          /\ (\A i \in DOMAIN todos : ~todos[i].completed) => (last'.ret.value = 0 /\ todos' = todos)
      ]_vars

\* deleteCompletedTodos removed a record and left one with status COMPLETED behind
DeleteCompletedWitness ==
    /\ last.op = "deleteCompleted"
    /\ last.ret.kind = "count"
    /\ last.ret.value >= 1
    /\ \E i \in DOMAIN todos : todos[i].status = "COMPLETED"

\* deleteCompletedTodos on a store that holds records, none of them completed
DeleteCompletedNoneWitness ==
    /\ last.op = "deleteCompleted"
    /\ last.ret.kind = "count"
    /\ last.ret.value = 0
    /\ todos # EmptyObj

\* C6: getTodoStats on a store reached by any sequence of calls returns total =
\* the number of records, completed = the number with completed true, pending =
\* the number with completed false whatever their status (so total = completed +
\* pending), and byPriority and byStatus with a key for exactly the values some
\* record holds, each mapped to the number of records that hold it, never zero;
\* on the empty store the counts are 0 and both mappings are empty.
StatsCountTheStore ==
    (last.op = "stats" /\ last.ret.kind = "stats") =>
        LET st == last.ret
        IN  /\ st.total = Cardinality(DOMAIN todos)
            /\ st.completed = Cardinality({i \in DOMAIN todos : todos[i].completed})
            /\ st.pending = Cardinality({i \in DOMAIN todos : ~todos[i].completed})
            /\ st.total = st.completed + st.pending
            /\ DOMAIN st.byPriority = {p \in TodoPriority : \E i \in DOMAIN todos : todos[i].priority = p}
            /\ DOMAIN st.byStatus = {s \in TodoStatus : \E i \in DOMAIN todos : todos[i].status = s}
            /\ \A p \in DOMAIN st.byPriority :
                   /\ st.byPriority[p] = Cardinality({i \in DOMAIN todos : todos[i].priority = p})
                   /\ st.byPriority[p] >= 1
            /\ \A s \in DOMAIN st.byStatus :
                   /\ st.byStatus[s] = Cardinality({i \in DOMAIN todos : todos[i].status = s})
                   /\ st.byStatus[s] >= 1
            /\ (todos = EmptyObj) =>
                   /\ st.total = 0 /\ st.completed = 0 /\ st.pending = 0
                   /\ st.byPriority = EmptyObj /\ st.byStatus = EmptyObj

\* statistics of a store with two records of different priority, one of them
\* pending with status IN_PROGRESS
StatsWitness ==
    /\ last.op = "stats"
    /\ last.ret.kind = "stats"
    /\ last.ret.total = 2
    /\ last.ret.pending >= 1
    /\ Cardinality(DOMAIN last.ret.byPriority) = 2
    /\ \E i \in DOMAIN todos : todos[i].status = "IN_PROGRESS" /\ ~todos[i].completed

ByIdCalls == {"get", "update", "toggle", "delete"}

\* what a call by id returns when it finds nothing
IsAbsent(op, ret) ==
    IF op = "delete" THEN ret = RetBool(FALSE) ELSE ret = RetNull

\* C10 (as stated): when the id names no record, get, update and toggle return
\* null and delete returns false, none raises, and the store is as it was.
NotFoundIsAbsent ==
    [][(last'.op \in ByIdCalls /\ last'.id \notin DOMAIN todos) =>
          /\ IsAbsent(last'.op, last'.ret)
          /\ todos' = todos
      ]_vars

\* C10 (amended): when the id is a well-formed identifier that names no record,
\* get, update and toggle return null and delete returns false and none raises;
\* when the id is not a well-formed identifier each of the four raises; in both
\* cases the store is as it was.
NotFoundIsAbsentForObjectIds ==
    [][(last'.op \in ByIdCalls /\ last'.id \notin DOMAIN todos) =>
          /\ IsObjectId(last'.id) => IsAbsent(last'.op, last'.ret)
          /\ ~IsObjectId(last'.id) => last'.ret.kind = "error"
          /\ todos' = todos
          /\ nextId' = nextId
      ]_vars

\* an update of a well-formed id that names no record, on a store that holds one
NotFoundWitness ==
    /\ last.op = "update"
    /\ IsObjectId(last.id)
    /\ last.id \notin DOMAIN todos
    /\ last.ret = RetNull
    /\ todos # EmptyObj

(***************************************************************************)
(* Properties of one call under SpecCall                                   *)
(***************************************************************************)
Updated == last.op = "update" /\ last.ret.kind = "doc"

\* C1: an update of an existing record whose input carries completed = true
\* leaves the record completed with status COMPLETED, whatever its status was
\* and whatever else the input carries, a status included.
UpdateCompletedForcesStatus ==
    (Updated /\ Has(last.input, "completed") /\ last.input.completed) =>
        /\ todos[last.id].completed = TRUE
        /\ todos[last.id].status = "COMPLETED"
        /\ last.ret.doc = todos[last.id]

\* an update with completed = true and status = TODO of a record in progress
UpdateCompletedWitness ==
    /\ Updated
    /\ last.input = [completed |-> TRUE, status |-> "TODO"]
    /\ last.before[1].status = "IN_PROGRESS"
    /\ ~last.before[1].completed
    /\ todos[last.id].status = "COMPLETED"

\* the fields an update may change besides those its input carries
AlsoWritten(input) ==
    {"updatedAt"} \cup (IF Has(input, "completed") /\ input.completed THEN {"status"} ELSE {})

\* C4: an update changes the fields its input carries (and status when the input
\* carries completed = true, and updatedAt) and no other field of the record and
\* no other record; an update to status COMPLETED with no completed field leaves
\* completed as it was.
UpdateChangesOnlyGivenFields ==
    [][(last'.op = "update" /\ last'.ret.kind = "doc") =>
          LET id == last'.id
              input == last'.input
          IN  /\ DOMAIN todos' = DOMAIN todos
              /\ \A i \in (DOMAIN todos) \ {id} : todos'[i] = todos[i]
              /\ DOMAIN todos'[id] = (DOMAIN todos[id]) \cup (DOMAIN input)
              /\ \A k \in (DOMAIN todos[id]) \ ((DOMAIN input) \cup AlsoWritten(input)) :
                     todos'[id][k] = todos[id][k]
              /\ \A k \in (DOMAIN input) \ AlsoWritten(input) : todos'[id][k] = input[k]
              /\ (Has(input, "status") /\ input.status = "COMPLETED" /\ ~Has(input, "completed")) =>
                     todos'[id].completed = todos[id].completed
      ]_vars

\* an update to status COMPLETED alone, of a record that is not completed, in a
\* store that holds a second record
UpdateStatusOnlyWitness ==
    /\ Updated
    /\ last.input = [status |-> "COMPLETED"]
    /\ ~last.before[1].completed
    /\ ~todos[last.id].completed
    /\ todos[last.id].updatedAt > last.before[1].updatedAt
    /\ Cardinality(DOMAIN todos) = 2

Listed == last.op = "todos"

GivenPagination(k) == last.input.pagination # <<>> /\ Has(last.input.pagination[1], k)

\* C7: for every page and limit a caller can pass, absent, zero, negative or
\* positive, the page and the limit getTodos works with are at least 1 (1 and 10
\* when absent) and skip = (page - 1) * limit is not negative; page 2 with limit
\* 5 gives skip 5 and limit 5, no arguments give skip 0 and limit 10.
PageAndLimitAtLeastOne ==
    Listed =>
        LET find == last.ret.find
        IN  /\ find.page >= 1
            /\ find.limit >= 1
            /\ find.skip = (find.page - 1) * find.limit
            /\ find.skip >= 0
            /\ ~GivenPagination("page") => find.page = 1
            /\ ~GivenPagination("limit") => find.limit = 10
            /\ (GivenPagination("page") /\ GivenPagination("limit")
                /\ last.input.pagination[1].page = 2 /\ last.input.pagination[1].limit = 5) =>
                   (find.skip = 5 /\ find.limit = 5)
            /\ last.input.pagination = <<>> => (find.skip = 0 /\ find.limit = 10)

\* C8: the totalPages the list reports is ceil(total / limit) for the limit
\* getTodos fetched the page with, and 0 when total is 0.  (t is the ceiling of
\* total / limit when t >= total / limit > t - 1.)
TotalPagesIsCeiling ==
    (Listed /\ last.ret.kind = "list") =>
        LET limit == last.ret.find.limit
            total == last.ret.total
            t == last.ret.totalPages
        IN  /\ last.ret.limit = limit
            /\ total = last.ret.service.total
            /\ total >= 0
            /\ limit > 0 => ((t - 1) * limit < total /\ total <= t * limit)
            /\ limit < 0 => ((t - 1) * limit > total /\ total >= t * limit)
            /\ total = 0 => t = 0

\* five matching records listed two to a page: three pages
TotalPagesWitness ==
    /\ Listed
    /\ last.ret.kind = "list"
    /\ last.ret.total = 5
    /\ last.ret.limit = 2
    /\ last.ret.totalPages = 3

\* the filter object of the call; none is the empty one
GivenFilters == IF last.input.filters = <<>> THEN EmptyObj ELSE last.input.filters[1]

\* the filter fields a query constrains
ConstrainedFields(query) ==
    ((DOMAIN query) \cap {"status", "completed", "priority", "tags"})
    \cup (IF Has(query, "or") THEN {"search"} ELSE {})
    \cup (IF Has(query, "dueDate") /\ Has(query.dueDate, "lte") THEN {"dueDateBefore"} ELSE {})
    \cup (IF Has(query, "dueDate") /\ Has(query.dueDate, "gte") THEN {"dueDateAfter"} ELSE {})

\* the record satisfies the constraint of each of these fields of the filter
Satisfies(doc, filters, fields) ==
    /\ "status" \in fields => doc.status = filters.status
    /\ "completed" \in fields => doc.completed = filters.completed
    /\ "priority" \in fields => doc.priority = filters.priority
    /\ "tags" \in fields => \E n \in 1..Len(filters.tags) : filters.tags[n] \in Elements(doc.tags)
    /\ "search" \in fields =>
           \/ RegexFound(filters.search, doc.title)
           \/ Has(doc, "description") /\ RegexFound(filters.search, doc.description)
    /\ "dueDateBefore" \in fields => (Has(doc, "dueDate") /\ doc.dueDate <= filters.dueDateBefore)
    /\ "dueDateAfter" \in fields => (Has(doc, "dueDate") /\ doc.dueDate >= filters.dueDateAfter)

\* the list returned the records that satisfy these fields of the filter
ListsThoseSatisfying(fields) ==
    LET ids == {i \in DOMAIN todos : Satisfies(todos[i], GivenFilters, fields)}
    IN  /\ ConstrainedFields(last.ret.find.query) = fields
        /\ last.ret.total = Cardinality(ids)
        /\ Elements(last.ret.todos) \subseteq ids
        /\ fields = {} => last.ret.total = Cardinality(DOMAIN todos)

\* C9 (as stated): the predicate the list builds constrains the fields present in
\* the filter and no other, combined by AND; tags matches a record that holds at
\* least one of the given tags; dueDateBefore and dueDateAfter together are one
\* inclusive interval; no filter and the empty filter match every record.
QueryConstrainsPresentFields ==
    (Listed /\ last.ret.kind = "list") => ListsThoseSatisfying(DOMAIN GivenFilters)

\* the fields of the filter that hold something: an empty list of tags and an
\* empty search string hold nothing
NonEmptyFields(filters) ==
    {k \in DOMAIN filters : k \in {"tags", "search"} => Len(filters[k]) > 0}

\* C9 (amended): as stated, for the fields present in the filter with a value
\* that is not empty; a tags field that is the empty list and a search field
\* that is the empty string constrain nothing.
QueryConstrainsNonEmptyFields ==
    (Listed /\ last.ret.kind = "list") => ListsThoseSatisfying(NonEmptyFields(GivenFilters))

\* a list with both date bounds, two tags and a status, that matched the one
\* record of two that lies in the interval
QueryWitness ==
    /\ Listed
    /\ last.ret.kind = "list"
    /\ {"dueDateBefore", "dueDateAfter", "tags", "status"} \subseteq DOMAIN GivenFilters
    /\ Len(GivenFilters.tags) = 2
    /\ Cardinality(DOMAIN todos) = 2
    /\ last.ret.total = 1

\* a list whose filter carries an empty list of tags and that matched a record
QueryEmptyTagsWitness ==
    /\ Listed
    /\ last.ret.kind = "list"
    /\ Has(GivenFilters, "tags")
    /\ GivenFilters.tags = <<>>
    /\ last.ret.total >= 1

\* the result the service operation ended with; Query.todos keeps getTodos' own
ServiceRet == IF last.op = "todos" THEN last.ret.service ELSE last.ret

\* the persistence calls of the last operation that failed
FailedCalls == {n \in 1..Len(last.calls) : last.calls[n].outcome # "ok"}

\* the operations that start all their calls at once (Promise.all)
AtOnce == {"todos", "stats"}

\* C11: in every service operation, a failure of a persistence call the
\* operation made ends the operation with a raised error whose message carries
\* the message of a call that failed; no normal result follows a failure, no
\* call is made a second time, and an operation that makes its calls one after
\* the other makes none after the one that failed.
PersistenceFailureRaises ==
    FailedCalls # {} =>
        /\ ServiceRet.kind = "error"
        /\ last.ret.kind = "error"
        /\ Len(ServiceRet.message) = 2
        /\ \E n \in FailedCalls : ServiceRet.message[2] = last.calls[n].outcome
        /\ \A m, n \in 1..Len(last.calls) : m # n => last.calls[m].call # last.calls[n].call
        /\ last.op \notin AtOnce => FailedCalls = {Len(last.calls)}

\* a toggle whose findById found the record and whose save() failed
PersistenceFailureWitness ==
    /\ last.op = "toggle"
    /\ last.calls = <<Call("findById", "ok"), Call("save", "ECONN")>>
    /\ last.ret = Raise("Failed to toggle todo status: ", "ECONN")
    /\ last.before # <<>>
    /\ todos[last.id] = last.before[1]

\* a list whose find succeeded and whose countDocuments failed
CountFailureWitness ==
    /\ last.op = "todos"
    /\ last.calls = <<Call("find", "ok"), Call("countDocuments", "ECONN")>>
    /\ last.ret.kind = "error"

(***************************************************************************)
(* Properties of the service under SpecConc                                *)
(***************************************************************************)
\* the step is the return of a successful update or toggle
Written ==
    /\ last'.op \in {"update", "toggle"}
    /\ last'.ret.kind = "doc"
    /\ last' # last \/ todos' # todos

\* a record stays under its id from its creation to its deletion, no id is
\* given out twice, and createdAt never changes
IdAndCreatedAtKept ==
    [][/\ \A id \in (DOMAIN todos) \cap (DOMAIN todos') :
              todos'[id].createdAt = todos[id].createdAt
       /\ (DOMAIN todos') \ (DOMAIN todos) \subseteq {nextId}
       /\ nextId' >= nextId
       /\ (DOMAIN todos') \ (DOMAIN todos) # {} => nextId' > nextId
       /\ Written =>
              /\ last'.id \in (DOMAIN todos) \cap (DOMAIN todos')
              /\ last'.ret.doc.createdAt = todos[last'.id].createdAt]_vars

\* every successful update or toggle writes the updatedAt it returns, a time
\* of the clock no later than now
WritesUpdatedAt ==
    [][Written =>
          /\ todos'[last'.id].updatedAt = last'.ret.doc.updatedAt
          /\ last'.ret.doc.updatedAt \in todos[last'.id].createdAt..now']_vars

\* updatedAt of a record never decreases
UpdatedAtNeverDecreases ==
    [][\A id \in (DOMAIN todos) \cap (DOMAIN todos') :
          todos'[id].updatedAt >= todos[id].updatedAt]_vars

\* C12 (as stated): under any interleaving of updates and toggles, a record
\* stays under its id from its creation to its deletion, its createdAt never
\* changes, its updatedAt never decreases, and every successful update or
\* toggle writes a fresh updatedAt.
TimestampsMoveForward ==
    [][/\ \A id \in (DOMAIN todos) \cap (DOMAIN todos') :
              /\ todos'[id].createdAt = todos[id].createdAt
              /\ todos'[id].updatedAt >= todos[id].updatedAt
       /\ (DOMAIN todos') \ (DOMAIN todos) \subseteq {nextId}
       /\ nextId' >= nextId
       /\ Written =>
              /\ last'.id \in (DOMAIN todos) \cap (DOMAIN todos')
              /\ last'.ret.doc.createdAt = todos[last'.id].createdAt
              /\ todos'[last'.id].updatedAt = last'.ret.doc.updatedAt
              /\ last'.ret.doc.updatedAt \in todos[last'.id].createdAt..now']_vars

\* a toggle has saved later than it loaded, while another toggle of the record
\* is still between its findById and its save()
TimestampsWitness ==
    /\ last.op = "toggle"
    /\ last.ret.kind = "doc"
    /\ last.id \in DOMAIN todos
    /\ last.before[1].updatedAt < todos[last.id].updatedAt
    /\ todos[last.id].createdAt < todos[last.id].updatedAt
    /\ \E r \in DOMAIN pending : pending[r].id = last.id

\* an update has written later than the record was created, while a toggle of
\* the record is between its findById and its save()
UpdateDuringToggleWitness ==
    /\ last.op = "update"
    /\ last.ret.kind = "doc"
    /\ last.ret.doc.createdAt < last.ret.doc.updatedAt
    /\ \E r \in DOMAIN pending : pending[r].id = last.id /\ pending[r].seen = "update"

\* the step is the successful save() of call r
Saves(r) == r \in DOMAIN pending /\ r \notin DOMAIN pending' /\ pending[r].id \in DOMAIN todos

\* two toggles that overlapped, and nothing else wrote the record: the flag is
\* what it was before the two
BothTogglesCount(r) ==
    pending[r].seen = "toggle" => todos'[pending[r].id].completed = pending[r].loaded.completed

\* one update wrote completed or status between findById and save(): the record
\* is the toggle of the updated record, or still holds what the update wrote
KeepsUpdate(r) ==
    pending[r].seen = "update" =>
        \/ StatusPair(todos'[pending[r].id]) = StatusPair(Toggled(todos[pending[r].id]))
        \/ \A k \in DOMAIN pending[r].upd : todos'[pending[r].id][k] = pending[r].upd[k]

\* C13 (as stated): two toggles of one record that overlap in time have the
\* effect of two toggles one after the other, so that once both have completed
\* the completed flag is what it was before the two; and a toggle that overlaps
\* an update of the record's completed or status does not overwrite what the
\* update wrote with a value computed from the document it read before.
OverlappingCallsAreSerial ==
    [][\A r \in DOMAIN pending : Saves(r) => BothTogglesCount(r) /\ KeepsUpdate(r)]_vars

\* the first half of C13 alone
OverlappingTogglesBothCount ==
    [][\A r \in DOMAIN pending : Saves(r) => BothTogglesCount(r)]_vars

\* the second half of C13 alone
ToggleKeepsOverlappingUpdate ==
    [][\A r \in DOMAIN pending : Saves(r) => KeepsUpdate(r)]_vars
====
